---- MODULE Spec2Model ----
(***************************************************************************)
(* Request lifecycle of the safari planner backend: submission             *)
(* (lambda_function.py), the asynchronous generation pipeline              *)
(* (process_itinerary.py), status advance (update_status.py), status poll  *)
(* (check_status.py), search by email (search_requests.py) and the e-mail  *)
(* verification store (request_verification.py).                           *)
(*                                                                         *)
(* Spec is the life cycle.  SpecSubmit follows the submission handler,     *)
(* SpecPipeline the pipeline handler and SpecGenerate the text handling of *)
(* generate_itinerary over wider sets of inputs; SpecSearch follows the    *)
(* search handler with the handlers that write the tables it reads.        *)
(*                                                                         *)
(* A DynamoDB item is a function from attribute names to values; its       *)
(* DOMAIN is the set of attributes the item has.  put_item replaces the    *)
(* item, update_item with a SET expression and no ConditionExpression      *)
(* overwrites the named attributes and creates the item when it is absent. *)
(*                                                                         *)
(* Each Lambda invocation is its own process.  The submission handler is   *)
(* cut after its hand-off to the pipeline (the task it queued may start     *)
(* before the handler returns), the pipeline between its write of          *)
(* 'processing' and its try block (whose last store write is the only one  *)
(* that takes effect); the other handlers are one action each.             *)
(***************************************************************************)
EXTENDS Integers, Sequences, FiniteSets, TLC

\* ---------------------------------------------------------------- bounds
MaxTicks == 1
MaxCalls == 2
MaxTextLen == 4

\* ------------------------------------------------------- program constants
\* timedelta(hours=8) of store_verification_code; the clock counts hours
CodeTtlHours == 8

VALID_STATUSES ==
    {"PENDING_ITENERARY_CREATION", "PENDING_ITENERARY_ACCEPTANCE",
     "PENDING_BOOKING", "BOOKING_IN_PROGRESS", "PENDING_PAYMENT", "COMPLETE"}

\* ----------------------------------------------------------------- inputs
\* Request identifiers are opaque keys, and every handler reads and writes only
\* the item its identifier names: one identifier stands for each of them.
RequestIds == {"req-1"}
NoId == ""
\* The address a trip request is submitted with, and the addresses a client
\* asks a code for and changes a request to
SubmitEmail == "a@safari.org"
NewEmails == {"b@safari.org"}
\* body.get('email') of a body without an email (or an empty one): falsy
NoEmail == ""
\* A text that is not an e-mail address (test_invalid_email_format)
MalformedEmail == "invalid-email"
Codes == {"111111", "222222"}
\* body.get('verificationCode') of a body without one: falsy
NoCode == ""
\* body.get('status'): members of VALID_STATUSES, an unknown value, or none
StatusInputs == {"PENDING_BOOKING", "COMPLETE", "BOGUS", ""}

\* Python None in a string attribute, and in the output attribute
None == "None"
NoOutput == <<>>

\* date.fromisoformat on the date texts bodies carry (a date is its day of
\* July 2025); any other text is not a date
date_fromiso == ("2025-07-10" :> 10) @@ ("2025-07-17" :> 17)
BadDate == "next week"

\* A JSON body is a record of the fields it has.  A well-formed body:
GoodBody ==
    [travelDates |-> [startDate |-> "2025-07-10", endDate |-> "2025-07-17",
                      isFlexible |-> FALSE],
     group |-> [international |-> [adults |-> 2, children |-> 1],
                resident |-> [adults |-> 1, children |-> 0]],
     accommodation |-> "lodge",
     interests |-> <<"wildlife">>,
     travelStyle |-> "luxury",
     email |-> SubmitEmail,
     specialRequests |-> "None"]

\* r without its field f
Without(r, f) == [k \in DOMAIN r \ {f} |-> r[k]]

\* The bodies a client posts to submit in the life cycle: a well-formed one and
\* one without its email
TripRequests == {GoodBody, Without(GoodBody, "email")}

\* The text of a completion is a sequence of tokens: the fence markers, the
\* braces, white space, prose, a JSON scalar, and the members of a JSON object
\* (each member token is the text of one "key": value pair).
\* (a quote stands for the backquote of the markers)
FenceJson == "'''json"
Fence == "'''"
LBrace == "{"
RBrace == "}"
Space == " "
Prose == "x"
Scalar == "5"
M_summary == "\"summary\":\"s\""
M_days == "\"itinerary\":[{\"day\":1,\"totalCost\":100},{\"day\":2}]"
M_day == "\"itinerary\":[{\"day\":1}]"
M_nodays == "\"itinerary\":[]"
M_total == "\"totalCost\":300"
M_cpp50 == "\"costPerPerson\":50"
M_cpp100 == "\"costPerPerson\":100"
M_weather == "\"weather\":\"sunny\""

\* What json.loads makes of each member token
Members ==
    (M_summary :> [key |-> "summary", val |-> "s"])
    @@ (M_days :> [key |-> "itinerary",
                   val |-> <<[day |-> 1, totalCost |-> 100], [day |-> 2]>>])
    @@ (M_day :> [key |-> "itinerary", val |-> <<[day |-> 1]>>])
    @@ (M_nodays :> [key |-> "itinerary", val |-> <<>>])
    @@ (M_total :> [key |-> "totalCost", val |-> 300])
    @@ (M_cpp50 :> [key |-> "costPerPerson", val |-> 50])
    @@ (M_cpp100 :> [key |-> "costPerPerson", val |-> 100])
    @@ (M_weather :> [key |-> "weather", val |-> "sunny"])

\* What the model call comes to: a raise, or the text of the completion
Completions ==
    { [kind |-> "invoke_raises", msg |-> "ThrottlingException"],
      [kind |-> "invoke_raises", msg |-> ""],
      [kind |-> "text", text |-> <<Prose, Prose>>],
      [kind |-> "text",
       text |-> <<Prose, FenceJson, Space, LBrace, M_summary, RBrace, Space, Fence>>],
      [kind |-> "text", text |-> <<LBrace, M_days, M_cpp50, RBrace>>],
      [kind |-> "text", text |-> <<Prose, LBrace, M_day, M_total, RBrace, Prose>>],
      [kind |-> "text",
       text |-> <<FenceJson, LBrace, M_day, M_total, M_cpp100, M_weather, RBrace, Fence>>] }

\* The texts generate_itinerary is followed on: every text of up to MaxTextLen
\* tokens, and every JSON object over the member tokens, bare and fenced
TextTokens == {FenceJson, Fence, LBrace, RBrace, Space, Prose, Scalar, M_day}

TokenTexts == UNION {[1 .. n -> TextTokens] : n \in 0 .. MaxTextLen}

ObjectTexts ==
    LET opt(m) == {<<>>, <<m>>}
        bodies == {i \o t \o c \o w :
                      i \in {<<>>, <<M_days>>, <<M_day>>, <<M_nodays>>},
                      t \in opt(M_total), c \in opt(M_cpp50), w \in opt(M_weather)}
    IN  {<<LBrace>> \o b \o <<RBrace>> : b \in bodies}
        \cup {<<Prose, FenceJson, Space, LBrace>> \o b \o <<RBrace, Space, Fence>> :
                 b \in bodies}

GeneratedTexts == TokenTexts \cup ObjectTexts

NoGen == [pc |-> "none", text |-> <<>>, json_str |-> <<>>,
          result |-> [ok |-> FALSE, error |-> ""]]

VARIABLES
    store,          \* requests table: requestId -> item
    verification,   \* verification table: email -> item
    now,            \* the clock, in hours
    submitPc,       \* per request id, where its submission handler stands
    task,           \* per request id, the pipeline task spawned for it
    resp,           \* the response of the last handler that answered a caller
    nCalls,         \* status-advance and verification requests made
    gen             \* one call of generate_itinerary past its model call

vars == <<store, verification, now, submitPc, task, resp, nCalls, gen>>

\* ------------------------------------------------------------ store adapter
\* table.put_item(Item=item)
put_item(table, key, item) ==
    [k \in DOMAIN table \cup {key} |-> IF k = key THEN item ELSE table[k]]

update_item_replaces(table, key, sets) ==
    put_item(table, key, [requestId |-> key] @@ sets)

\* table.update_item(Key={'requestId': key}, UpdateExpression='SET ...'): the
\* attributes of sets overwrite the item's; an absent item is created
update_item(table, key, sets) ==
    LET old == IF key \in DOMAIN table THEN table[key] ELSE [requestId |-> key]
        new == [a \in DOMAIN old \cup DOMAIN sets |->
                    IF a \in DOMAIN sets THEN sets[a] ELSE old[a]]
    IN  put_item(table, key, new)

\* dict.get(key, default)
get(d, key, default) == IF key \in DOMAIN d THEN d[key] ELSE default

NoResp == [op |-> "none", code |-> 0, kind |-> "", id |-> NoId, status |-> ""]

Response(op, code, kind, id, status) ==
    [op |-> op, code |-> code, kind |-> kind, id |-> id, status |-> status]

\* ---------------------------------------------------------------- submit
\* GroupMember: adults and children, both required and >= 0
GroupMember(m) ==
    /\ {"adults", "children"} \subseteq DOMAIN m
    /\ m.adults >= 0
    /\ m.children >= 0

SafariRequest_unbounded_counts(body) ==
    IF /\ {"travelDates", "group", "accommodation", "interests", "travelStyle",
           "email", "specialRequests"} \subseteq DOMAIN body
       /\ {"startDate", "endDate", "isFlexible"} \subseteq DOMAIN body.travelDates
       /\ body.travelDates.startDate \in DOMAIN date_fromiso
       /\ body.travelDates.endDate \in DOMAIN date_fromiso
       /\ {"international", "resident"} \subseteq DOMAIN body.group
       /\ {"adults", "children"} \subseteq DOMAIN body.group.international
       /\ {"adults", "children"} \subseteq DOMAIN body.group.resident
    THEN [ok |-> TRUE,
          request |-> [body EXCEPT !.travelDates.startDate = date_fromiso[@],
                                   !.travelDates.endDate = date_fromiso[@]]]
    ELSE [ok |-> FALSE, request |-> <<>>]

\* SafariRequest(**body): pydantic's validation of the body; the request it
\* builds holds the dates as dates
SafariRequest(body) ==
    IF /\ {"travelDates", "group", "accommodation", "interests", "travelStyle",
           "email", "specialRequests"} \subseteq DOMAIN body
       /\ {"startDate", "endDate", "isFlexible"} \subseteq DOMAIN body.travelDates
       /\ body.travelDates.startDate \in DOMAIN date_fromiso
       /\ body.travelDates.endDate \in DOMAIN date_fromiso
       /\ {"international", "resident"} \subseteq DOMAIN body.group
       /\ GroupMember(body.group.international)
       /\ GroupMember(body.group.resident)
    THEN [ok |-> TRUE,
          request |-> [body EXCEPT !.travelDates.startDate = date_fromiso[@],
                                   !.travelDates.endDate = date_fromiso[@]]]
    ELSE [ok |-> FALSE, request |-> <<>>]

\* date.isoformat()
isoformat(d) == CHOOSE text \in DOMAIN date_fromiso : date_fromiso[text] = d

\* request_data.model_dump_json(), read back by json.loads: the dates are texts
model_dump_json(request) ==
    [request EXCEPT !.travelDates.startDate = isoformat(@),
                    !.travelDates.endDate = isoformat(@)]

initial_status_wrong == "PENDING_ITENERARY_CREATION"

\* 'status': 'pending',  # Initial status
initial_status == "pending"

store_request_item(request_id, request_data) ==
    [requestId |-> request_id,
     email |-> request_data.email,
     createdAt |-> now,
     startDate |-> isoformat(request_data.travelDates.startDate),
     endDate |-> isoformat(request_data.travelDates.endDate),
     status |-> initial_status,
     paymentStatus |-> "unpaid",
     totalCost |-> 0,
     costPerPerson |-> 0,
     currency |-> "USD",
     input |-> model_dump_json(request_data),
     output |-> NoOutput,
     errorMessage |-> None,
     payment |-> [status |-> "unpaid", totalDue |-> 0, currency |-> "USD",
                  installments |-> <<>>]]

NoTask == [pc |-> "none", event |-> <<>>, outcome |-> "none", details |-> "", spawned |-> 0,
           modelCalls |-> 0, began |-> FALSE, raised |-> FALSE,
           storeFailed |-> FALSE, failAttempted |-> FALSE, failStored |-> FALSE]

invoke_event_twice(t, request_id, request_data) ==
    [t EXCEPT !.pc = "queued",
              !.event = [requestId |-> request_id,
                         requestData |-> model_dump_json(request_data)],
              !.spawned = @ + 2]

\* The task one lambda_client.invoke(InvocationType='Event') queues
invoke_event(t, request_id, request_data) ==
    [t EXCEPT !.pc = "queued",
              !.event = [requestId |-> request_id,
                         requestData |-> model_dump_json(request_data)],
              !.spawned = @ + 1]

\* uuid.uuid4(): an identifier no item and no earlier submission has
FreshIds == {i \in RequestIds : i \notin DOMAIN store /\ submitPc[i] = "none"}

\* lambda_handler up to the hand-off: validation, store_request (put_item), then
\* lambda_client.invoke; a raise of either reaches the outer handler (500)
Submit(body, request_id, storeOk, invokeOk) ==
    /\ request_id \in FreshIds
    /\ IF ~SafariRequest(body).ok
       THEN /\ resp' = Response("submit", 400, "InvalidRequest", NoId, "")
            /\ UNCHANGED <<store, submitPc, task>>
       ELSE IF ~storeOk
       THEN /\ resp' = Response("submit", 500, "InternalServerError", NoId, "")
            /\ UNCHANGED <<store, submitPc, task>>
       ELSE /\ store' = put_item(store, request_id,
                                 store_request_item(request_id, SafariRequest(body).request))
            /\ IF invokeOk
               THEN /\ task' = [task EXCEPT ![request_id] =
                                    invoke_event(@, request_id,
                                                 SafariRequest(body).request)]
                    /\ submitPc' = [submitPc EXCEPT ![request_id] = "invoked"]
                    /\ UNCHANGED resp
               ELSE /\ resp' = Response("submit", 500, "InternalServerError", NoId, "")
                    /\ submitPc' = [submitPc EXCEPT ![request_id] = "failed"]
                    /\ UNCHANGED task
    /\ UNCHANGED <<verification, now, nCalls, gen>>

\* return {"statusCode": 202, "body": {"requestId": ..., "status": "pending"}}
Submit_return(request_id) ==
    /\ submitPc[request_id] = "invoked"
    /\ submitPc' = [submitPc EXCEPT ![request_id] = "returned"]
    /\ resp' = Response("submit", 202, "Accepted", request_id, "pending")
    /\ UNCHANGED <<store, verification, now, task, nCalls, gen>>

\* ------------------------------------------------------ generation pipeline
\* total_travelers of generate_prompt, lines 42-51
total_travelers(request_data) ==
    LET group == get(request_data, "group", <<>>)
        international == get(group, "international", <<>>)
        resident == get(group, "resident", <<>>)
    IN  get(international, "adults", 0) + get(international, "children", 0)
        + get(resident, "adults", 0) + get(resident, "children", 0)

generate_prompt_no_date_check(request_data) ==
    LET travel_dates == get(request_data, "travelDates", <<>>)
    IN  [ok |-> TRUE, error |-> "",
         prompt |-> [total_travelers |-> total_travelers(request_data),
                     start_date |-> get(travel_dates, "startDate", None),
                     end_date |-> get(travel_dates, "endDate", None)]]

\* generate_prompt: raises ValueError when a date is missing or empty; the
\* prompt names the traveler count and the two dates
generate_prompt(request_data) ==
    LET travel_dates == get(request_data, "travelDates", <<>>)
        start_date == get(travel_dates, "startDate", None)
        end_date == get(travel_dates, "endDate", None)
    IN  IF start_date \in {None, ""} \/ end_date \in {None, ""}
        THEN [ok |-> FALSE, error |-> "Missing start date or end date"]
        ELSE [ok |-> TRUE, error |-> "",
              prompt |-> [total_travelers |-> total_travelers(request_data),
                          start_date |-> start_date,
                          end_date |-> end_date]]

\* sum(day.get('totalCost', 0) for day in itinerary['itinerary'])
RECURSIVE sum_day_costs(_)
sum_day_costs(days) ==
    IF days = <<>> THEN 0
    ELSE (IF "totalCost" \in DOMAIN Head(days) THEN Head(days).totalCost ELSE 0)
         + sum_day_costs(Tail(days))

\* A token of the text starts an occurrence of the pattern: the closing-fence
\* pattern of three backquotes also occurs at the start of the json marker
Occurs(tok, pat) == IF pat = Fence THEN tok \in {Fence, FenceJson} ELSE tok = pat

\* str.find(pat, start) and str.rfind(pat), positions counted from 0 in tokens
find(text, pat, start) ==
    LET hits == {i \in start .. Len(text) - 1 : Occurs(text[i + 1], pat)}
    IN  IF hits = {} THEN -1 ELSE CHOOSE i \in hits : \A j \in hits : i <= j

rfind(text, pat) ==
    LET hits == {i \in 0 .. Len(text) - 1 : Occurs(text[i + 1], pat)}
    IN  IF hits = {} THEN -1 ELSE CHOOSE i \in hits : \A j \in hits : i >= j

\* text[a:b] of Python: a negative index counts from the end
slice(text, a, b) ==
    LET n == Len(text)
        lo == IF a < 0 THEN (IF a + n < 0 THEN 0 ELSE a + n) ELSE (IF a > n THEN n ELSE a)
        hi == IF b < 0 THEN (IF b + n < 0 THEN 0 ELSE b + n) ELSE (IF b > n THEN n ELSE b)
    IN  SubSeq(text, lo + 1, hi)

\* str.strip()
RECURSIVE lstrip(_)
lstrip(text) ==
    IF text # <<>> /\ Head(text) = Space THEN lstrip(Tail(text)) ELSE text

RECURSIVE rstrip(_)
rstrip(text) ==
    IF text # <<>> /\ text[Len(text)] = Space
    THEN rstrip(SubSeq(text, 1, Len(text) - 1)) ELSE text

strip(text) == lstrip(rstrip(text))

extract_json_str_unfenced_only(generated_text) ==
    LET json_start == find(generated_text, LBrace, 0)
        json_end == rfind(generated_text, RBrace) + 1
    IN  strip(slice(generated_text, json_start, json_end))

\* generate_itinerary, lines 194-202: the JSON text found in the completion
extract_json_str(generated_text) ==
    IF find(generated_text, FenceJson, 0) # -1
    THEN LET json_start == find(generated_text, FenceJson, 0) + 1
             json_end == find(generated_text, Fence, json_start)
         IN  strip(slice(generated_text, json_start, json_end))
    ELSE LET json_start == find(generated_text, LBrace, 0)
             json_end == rfind(generated_text, RBrace) + 1
         IN  strip(slice(generated_text, json_start, json_end))

\* The object a sequence of member tokens denotes; a repeated key keeps its
\* last value
RECURSIVE json_object(_)
json_object(members) ==
    IF members = <<>> THEN <<>>
    ELSE LET m == Members[members[Len(members)]]
         IN  (m.key :> m.val) @@ json_object(SubSeq(members, 1, Len(members) - 1))

\* json.loads(json_str): a scalar, an object, or JSONDecodeError
json_loads(json_str) ==
    LET inner == SelectSeq(SubSeq(json_str, 2, Len(json_str) - 1),
                           LAMBDA t : t # Space)
    IN  IF json_str = <<Scalar>>
        THEN [ok |-> TRUE, isdict |-> FALSE, value |-> <<>>]
        ELSE IF /\ Len(json_str) >= 2
                /\ json_str[1] = LBrace
                /\ json_str[Len(json_str)] = RBrace
                /\ \A k \in 1 .. Len(inner) : inner[k] \in DOMAIN Members
        THEN [ok |-> TRUE, isdict |-> TRUE, value |-> json_object(inner)]
        ELSE [ok |-> FALSE, isdict |-> FALSE, value |-> <<>>]

\* The ValueError that reports json.JSONDecodeError, line 227
InvalidJSON == "Failed to parse JSON from model response"

with_total_cost_recomputed(itinerary) ==
    [k \in DOMAIN itinerary \cup {"totalCost"} |->
        IF k = "totalCost" THEN sum_day_costs(itinerary.itinerary) ELSE itinerary[k]]

\* generate_itinerary, lines 215-217: totalCost when the model gave none
with_total_cost(itinerary) ==
    IF "totalCost" \in DOMAIN itinerary THEN itinerary
    ELSE ("totalCost" :> sum_day_costs(itinerary.itinerary)) @@ itinerary

parse_itinerary_any_object(json_str) ==
    LET parsed == json_loads(json_str)
    IN  IF parsed.ok /\ parsed.isdict
        THEN [ok |-> TRUE, itinerary |-> parsed.value]
        ELSE [ok |-> FALSE, error |-> InvalidJSON]

\* generate_itinerary, lines 205-223: the parse, the validation and the cost
\* back-fill.  total_travelers is not a name of this function's scope, so the
\* back-fill of costPerPerson raises NameError.
parse_itinerary(json_str) ==
    LET parsed == json_loads(json_str)
    IN  IF ~parsed.ok
        THEN [ok |-> FALSE, error |-> InvalidJSON]
        ELSE IF ~parsed.isdict
        THEN [ok |-> FALSE, error |-> "Generated itinerary is not a valid JSON object"]
        ELSE IF "itinerary" \notin DOMAIN parsed.value
        THEN [ok |-> FALSE, error |-> "Generated itinerary missing 'itinerary' array"]
        ELSE IF "costPerPerson" \in DOMAIN with_total_cost(parsed.value)
        THEN [ok |-> TRUE, itinerary |-> with_total_cost(parsed.value)]
        ELSE [ok |-> FALSE, error |-> "name 'total_travelers' is not defined"]

generate_itinerary_retries(completion) ==
    IF completion.kind = "invoke_raises"
    THEN parse_itinerary(extract_json_str(<<LBrace, M_days, M_cpp50, RBrace>>))
    ELSE parse_itinerary(extract_json_str(completion.text))

\* generate_itinerary: the model call, then the extraction and the parse of
\* the text it returned
generate_itinerary(completion) ==
    IF completion.kind = "invoke_raises"
    THEN [ok |-> FALSE, error |-> completion.msg]
    ELSE parse_itinerary(extract_json_str(completion.text))

process_update_expression_no_costs(status, itinerary_data, error) ==
    [status |-> status]
    @@ (IF itinerary_data # <<>> THEN [output |-> itinerary_data] ELSE <<>>)
    @@ (IF error # "" THEN [error |-> error] ELSE <<>>)

\* update_request_status of process_itinerary.py: the SET expression it builds.
\* itinerary_data is <<>> for None and <<dict>> otherwise; error is "" for None.
process_update_expression(status, itinerary_data, error) ==
    LET withOutput ==
            IF itinerary_data # <<>>
            THEN [output |-> itinerary_data,
                  totalCost |-> IF "totalCost" \in DOMAIN itinerary_data[1]
                                THEN itinerary_data[1].totalCost ELSE 0,
                  costPerPerson |-> IF "costPerPerson" \in DOMAIN itinerary_data[1]
                                    THEN itinerary_data[1].costPerPerson ELSE 0]
            ELSE <<>>
        withError == IF error # "" THEN [error |-> error] ELSE <<>>
    IN  [status |-> status] @@ withOutput @@ withError

process_update_request_status(table, request_id, status, itinerary_data, error) ==
    update_item(table, request_id,
                process_update_expression(status, itinerary_data, error))

ProcessItinerary_begin_swallows(request_id, storeOk) ==
    /\ task[request_id].pc = "queued"
    /\ IF storeOk
       THEN /\ store' = process_update_request_status(store, request_id,
                                                      "processing", <<>>, "")
            /\ task' = [task EXCEPT ![request_id].pc = "began",
                                    ![request_id].began = TRUE]
       ELSE /\ task' = [task EXCEPT ![request_id].pc = "began"]
            /\ UNCHANGED store
    /\ UNCHANGED <<verification, now, submitPc, resp, nCalls, gen>>

\* The requestData of an event that is the empty text, not JSON
EmptyText == [text |-> ""]

\* json.loads(event.get('requestData', '{}')), line 294: the object the text
\* denotes ({} for an event without requestData); the empty text raises
\* JSONDecodeError
event_request_data(event) ==
    IF "requestData" \notin DOMAIN event THEN [ok |-> TRUE, value |-> <<>>]
    ELSE IF event.requestData = EmptyText THEN [ok |-> FALSE, value |-> <<>>]
    ELSE [ok |-> TRUE, value |-> event.requestData]

\* str(e) of that JSONDecodeError
JSONDecodeError == "Expecting value: line 1 column 1 (char 0)"

\* lambda_handler, lines 292-317: the event is read (a raise of json.loads
\* reaches the outer handler: 500), an event without requestId or with no
\* request data is answered 400, then update_request_status(request_id,
\* 'processing').  A raise of that write reaches the outer handler: 500,
\* nothing else is done.
ProcessItinerary_begin(request_id, storeOk) ==
    /\ task[request_id].pc = "queued"
    /\ IF ~event_request_data(task[request_id].event).ok
       THEN /\ task' = [task EXCEPT ![request_id].pc = "done",
                                    ![request_id].outcome = "500 Internal server error",
                                    ![request_id].details = JSONDecodeError]
            /\ UNCHANGED store
       ELSE IF \/ get(task[request_id].event, "requestId", NoId) = NoId
               \/ event_request_data(task[request_id].event).value = <<>>
       THEN /\ task' = [task EXCEPT ![request_id].pc = "done",
                                    ![request_id].outcome =
                                        "400 Missing requestId or requestData"]
            /\ UNCHANGED store
       ELSE IF storeOk
       THEN /\ store' = process_update_request_status(store, request_id,
                                                      "processing", <<>>, "")
            /\ task' = [task EXCEPT ![request_id].pc = "began",
                                    ![request_id].began = TRUE]
       ELSE /\ task' = [task EXCEPT ![request_id].pc = "done",
                                    ![request_id].outcome = "500 Internal server error",
                                    ![request_id].details = "StoreFailure"]
            /\ UNCHANGED store
    /\ UNCHANGED <<verification, now, submitPc, resp, nCalls, gen>>

\* The try block, lines 320-333: what reaches its end, or the exception raised
try_block(request_data, completion, storeOk) ==
    LET prompt == generate_prompt(request_data)
        generated == IF prompt.ok THEN generate_itinerary(completion)
                     ELSE [ok |-> FALSE, error |-> prompt.error]
    IN  IF generated.ok /\ ~storeOk
        THEN [ok |-> FALSE, error |-> "StoreFailure", modelCalled |-> TRUE,
              storeFailed |-> TRUE]
        ELSE generated @@ [modelCalled |-> prompt.ok, storeFailed |-> FALSE]

except_clause_keeps_status(table, request_id, e) ==
    update_item(table, request_id, IF e.error # "" THEN [error |-> e.error] ELSE <<>>)

\* The except clause, line 356: the write of 'failed' with error=str(e)
except_clause(table, request_id, e) ==
    process_update_request_status(table, request_id, "failed", <<>>, e.error)

\* lambda_handler, lines 319-389: the try block, whose last statement writes
\* PENDING_ACCEPTANCE with the itinerary, and the except clause, which writes
\* 'failed'; a raise of that write reaches the outer handler.  Both 500
\* answers carry 'details': str(e) of the exception they caught.
ProcessItinerary_run(request_id, completion, storeOk, failOk) ==
    /\ task[request_id].pc = "began"
    /\ LET r == try_block(task[request_id].event.requestData, completion, storeOk)
           t == [task[request_id] EXCEPT
                    !.pc = "done",
                    !.modelCalls = IF r.modelCalled THEN @ + 1 ELSE @,
                    !.raised = ~r.ok,
                    !.storeFailed = r.storeFailed,
                    !.failAttempted = ~r.ok,
                    !.failStored = ~r.ok /\ failOk]
       IN  IF r.ok
           THEN /\ store' = process_update_request_status(store, request_id,
                                "PENDING_ACCEPTANCE", <<r.itinerary>>, "")
                /\ task' = [task EXCEPT ![request_id] =
                                [t EXCEPT !.outcome = "200 PENDING_ACCEPTANCE"]]
           ELSE IF failOk
           THEN /\ store' = except_clause(store, request_id, r)
                /\ task' = [task EXCEPT ![request_id] =
                                [t EXCEPT !.outcome = "500 Failed to generate itinerary",
                                          !.details = r.error]]
           ELSE /\ UNCHANGED store
                /\ task' = [task EXCEPT ![request_id] =
                                [t EXCEPT !.outcome = "500 Internal server error",
                                          !.details = "StoreFailure"]]
    /\ UNCHANGED <<verification, now, submitPc, resp, nCalls, gen>>

\* ------------------------------------------------------- e-mail verification
store_verification_code_keeps_first(table, email, code) ==
    IF email \in DOMAIN table THEN table
    ELSE put_item(table, email,
                  [email |-> email, code |-> code, expiresAt |-> now + CodeTtlHours])

\* store_verification_code: put_item of {email, code, expiresAt}
store_verification_code(table, email, code) ==
    put_item(table, email,
             [email |-> email, code |-> code, expiresAt |-> now + CodeTtlHours])

\* str(send_error) of the exception mailer.send raised
MailerSendError == "mailer.send raised"

\* request_verification.lambda_handler: code generation, store, mail; the
\* answer to a failed send carries 'details': error_msg
RequestVerification(email, code, storeOk, mailOk) ==
    /\ nCalls < MaxCalls
    /\ nCalls' = nCalls + 1
    /\ IF email = NoEmail
       THEN /\ resp' = Response("verification", 400, "EmailRequired", NoId, "")
            /\ UNCHANGED verification
       ELSE IF ~storeOk
       THEN /\ resp' = Response("verification", 500, "FailedToStore", NoId, "")
            /\ UNCHANGED verification
       ELSE /\ verification' = store_verification_code(verification, email, code)
            /\ resp' = IF mailOk
                       THEN Response("verification", 200, "Sent", NoId, "")
                       ELSE Response("verification", 500, "FailedToSend", NoId, "")
                            @@ [details |-> MailerSendError]
    /\ UNCHANGED <<store, now, submitPc, task, gen>>

verify_code_ignores_expiry(email, code, tableUp) ==
    /\ tableUp
    /\ email \in DOMAIN verification
    /\ verification[email].code = code

\* verify_code of update_status.py; a raise of get_item is answered False
verify_code(email, code, tableUp) ==
    /\ tableUp
    /\ email \in DOMAIN verification
    /\ verification[email].code = code
    /\ verification[email].expiresAt > now

\* ------------------------------------------------------------ status advance
\* update_request_status of update_status.py: the SET expression it builds
advance_update_expression(new_status, new_email) ==
    [status |-> new_status, updatedAt |-> now]
    @@ (IF new_email # NoEmail THEN [email |-> new_email] ELSE <<>>)

advance_update_request_status(table, request_id, new_status, new_email) ==
    update_item(table, request_id, advance_update_expression(new_status, new_email))

advance_outcome_any_status(new_status, new_email, verification_code, tableUp, storeOk) ==
    IF new_status = "" THEN "MissingStatus"
    ELSE IF new_email # NoEmail /\ verification_code = NoCode
    THEN "VerificationCodeRequired"
    ELSE IF new_email # NoEmail /\ ~verify_code(new_email, verification_code, tableUp)
    THEN "InvalidOrExpiredCode"
    ELSE IF ~storeOk THEN "InternalServerError"
    ELSE "OK"

\* What update_status.lambda_handler answers, in the order of its checks
advance_outcome(new_status, new_email, verification_code, tableUp, storeOk) ==
    IF new_status = "" THEN "MissingStatus"
    ELSE IF new_email # NoEmail /\ verification_code = NoCode
    THEN "VerificationCodeRequired"
    ELSE IF new_email # NoEmail /\ ~verify_code(new_email, verification_code, tableUp)
    THEN "InvalidOrExpiredCode"
    ELSE IF new_status \notin VALID_STATUSES THEN "InvalidStatus"
    ELSE IF ~storeOk THEN "InternalServerError"
    ELSE "OK"

\* Callers learn an identifier from the response of submit; any other
\* identifier they send is one no submission is using.
CallerIds == {i \in RequestIds : submitPc[i] \in {"none", "returned"}}

\* update_status.lambda_handler
UpdateStatus(request_id, new_status, new_email, verification_code, tableUp, storeOk) ==
    /\ nCalls < MaxCalls
    /\ nCalls' = nCalls + 1
    /\ request_id \in CallerIds
    /\ LET outcome == advance_outcome(new_status, new_email, verification_code,
                                      tableUp, storeOk)
       IN  IF outcome = "OK"
           THEN /\ store' = advance_update_request_status(store, request_id,
                                                          new_status, new_email)
                /\ resp' = Response("advance", 200, "OK", request_id, new_status)
           ELSE /\ UNCHANGED store
                /\ resp' = Response("advance",
                                    IF outcome = "InternalServerError" THEN 500 ELSE 400,
                                    outcome, request_id, "")
    /\ UNCHANGED <<verification, now, submitPc, task, gen>>

\* -------------------------------------------------------------- poll status
\* str.upper() on the status values the handlers write
upper(s) ==
    CASE s = "pending" -> "PENDING"
      [] s = "processing" -> "PROCESSING"
      [] s = "failed" -> "FAILED"
      [] OTHER -> s

check_status_body_always_itinerary(item) ==
    [requestId |-> get(item, "requestId", None),
     status |-> get(item, "status", None),
     itinerary |-> get(item, "output", NoOutput)]

\* check_status.lambda_handler, lines 73-99: the response data built from the item
check_status_body(item) ==
    LET response_data ==
            [requestId |-> get(item, "requestId", None),
             status |-> get(item, "status", None),
             createdAt |-> get(item, "createdAt", None),
             startDate |-> get(item, "startDate", None),
             endDate |-> get(item, "endDate", None),
             email |-> get(item, "email", None),
             totalCost |-> get(item, "totalCost", 0),
             costPerPerson |-> get(item, "costPerPerson", 0),
             currency |-> get(item, "currency", "USD"),
             paymentStatus |-> get(item, "paymentStatus", "unpaid")]
        status == upper(get(item, "status", ""))
    IN  response_data
        @@ (IF status \in {"COMPLETE", "PENDING_BOOKING"} /\ "itinerary" \in DOMAIN item
            THEN [itinerary |-> item.itinerary] ELSE <<>>)
        @@ (IF status = "ERROR"
            THEN [errorMessage |-> get(item, "errorMessage", None)] ELSE <<>>)

\* check_status.lambda_handler: get_item and the projection of the item
CheckStatus(request_id, tableUp) ==
    /\ request_id \in CallerIds \cup {NoId}
    /\ resp' =
         IF request_id = NoId
         THEN Response("poll", 400, "MissingRequestId", NoId, "")
         ELSE IF ~tableUp
         THEN Response("poll", 500, "InternalServerError", request_id, "")
         ELSE IF request_id \notin DOMAIN store
         THEN Response("poll", 404, "NotFound", request_id, "")
         ELSE Response("poll", 200, "OK", request_id, store[request_id].status)
              @@ [body |-> check_status_body(store[request_id])]
    /\ UNCHANGED <<store, verification, now, submitPc, task, nCalls, gen>>

\* ------------------------------------------------------------ search by email
\* requests_table.query(IndexName='EmailIndex', KeyConditionExpression=
\* 'email = :email'): the items with that email, in the order of the index;
\* the handler does not sort them
query_EmailIndex(table, email) ==
    LET ids == {i \in DOMAIN table : get(table[i], "email", None) = email}
    IN  {order \in [1 .. Cardinality(ids) -> ids] :
            \A a, b \in 1 .. Cardinality(ids) : a # b => order[a] # order[b]}

\* search_requests.lambda_handler, lines 134-144: the projection of one item
formatted_item(item) ==
    [requestId |-> get(item, "requestId", None),
     status |-> get(item, "status", None),
     createdAt |-> get(item, "createdAt", None),
     email |-> get(item, "email", None),
     paymentStatus |-> get(item, "paymentStatus", "PENDING")]
    @@ (IF get(item, "status", None) \in {"COMPLETE", "PENDING_BOOKING", "PENDING_ACCEPTANCE"}
        THEN [itinerary |-> get(item, "output", NoOutput)] ELSE <<>>)

\* str(e) of the TypeError datetime.fromisoformat(None) raises
FromisoformatTypeError == "fromisoformat: argument must be str"

\* search_requests.lambda_handler, lines 107-118: the check of the code against
\* the attributes verificationCode and expirationTime of the verification
\* item.  An item without expirationTime gives fromisoformat None, which raises.
search_verification(item, code) ==
    IF get(item, "expirationTime", None) = None
    THEN "TypeError"
    ELSE IF get(item, "verificationCode", None) # code \/ now > item.expirationTime
    THEN "InvalidOrExpiredCode"
    ELSE "OK"

\* search_requests.lambda_handler: a ClientError of either table is answered
\* 500 'Error retrieving requests', any other exception 500 with its text
SearchRequests(email, code, tableUp, queryOk) ==
    /\ \E order \in query_EmailIndex(store, email) :
          resp' =
            IF email = NoEmail \/ code = NoCode
            THEN Response("search", 400, "EmailAndCodeRequired", NoId, "")
            ELSE IF ~tableUp
            THEN Response("search", 500, "ErrorRetrievingRequests", NoId, "")
            ELSE IF email \notin DOMAIN verification
            THEN Response("search", 404, "VerificationCodeNotFound", NoId, "")
            ELSE IF search_verification(verification[email], code) = "TypeError"
            THEN Response("search", 500, "InternalServerError", NoId, "")
                 @@ [details |-> FromisoformatTypeError]
            ELSE IF search_verification(verification[email], code) # "OK"
            THEN Response("search", 401, "InvalidOrExpiredCode", NoId, "")
            ELSE IF ~queryOk
            THEN Response("search", 500, "ErrorRetrievingRequests", NoId, "")
            ELSE Response("search", 200, "OK", NoId, "")
                 @@ [requests |-> [k \in DOMAIN order |-> formatted_item(store[order[k]])]]
    /\ UNCHANGED <<store, verification, now, submitPc, task, nCalls, gen>>

\* ------------------------------------------------------------------ system
Init ==
    /\ store = <<>>
    /\ verification = <<>>
    /\ now = 0
    /\ submitPc = [i \in RequestIds |-> "none"]
    /\ task = [i \in RequestIds |-> NoTask]
    /\ resp = NoResp
    /\ nCalls = 0
    /\ gen = NoGen

Tick ==
    /\ now < MaxTicks * CodeTtlHours
    /\ now' = now + CodeTtlHours
    /\ UNCHANGED <<store, verification, submitPc, task, resp, nCalls, gen>>

Next ==
    \/ \E body \in TripRequests, i \in RequestIds, ok1, ok2 \in BOOLEAN :
            Submit(body, i, ok1, ok2)
    \/ \E i \in RequestIds : Submit_return(i)
    \/ \E i \in RequestIds, ok \in BOOLEAN : ProcessItinerary_begin(i, ok)
    \/ \E i \in RequestIds, c \in Completions, ok1, ok2 \in BOOLEAN :
            ProcessItinerary_run(i, c, ok1, ok2)
    \/ \E e \in NewEmails \cup {NoEmail}, c \in Codes, ok1, ok2 \in BOOLEAN :
            RequestVerification(e, c, ok1, ok2)
    \/ \E i \in RequestIds, s \in StatusInputs, e \in NewEmails \cup {NoEmail},
          c \in Codes \cup {NoCode}, ok1, ok2 \in BOOLEAN :
            UpdateStatus(i, s, e, c, ok1, ok2)
    \/ \E i \in RequestIds \cup {NoId}, ok \in BOOLEAN : CheckStatus(i, ok)
    \/ Tick

Spec == Init /\ [][Next]_vars

\* ------------------------------------------- generate_itinerary on any text
\* One call of generate_itinerary followed from the text the model returned:
\* the extraction of the JSON text, then its parse and the cost back-fill.
GenerateItinerary_extract ==
    /\ gen.pc = "text"
    /\ gen' = [gen EXCEPT !.pc = "extracted",
                          !.json_str = extract_json_str(gen.text)]
    /\ UNCHANGED <<store, verification, now, submitPc, task, resp, nCalls>>

GenerateItinerary_parse ==
    /\ gen.pc = "extracted"
    /\ gen' = [gen EXCEPT !.pc = "parsed",
                          !.result = parse_itinerary(gen.json_str)]
    /\ UNCHANGED <<store, verification, now, submitPc, task, resp, nCalls>>

InitGenerate ==
    /\ store = <<>>
    /\ verification = <<>>
    /\ now = 0
    /\ submitPc = [i \in RequestIds |-> "none"]
    /\ task = [i \in RequestIds |-> NoTask]
    /\ resp = NoResp
    /\ nCalls = 0
    /\ \E t \in GeneratedTexts : gen = [NoGen EXCEPT !.pc = "text", !.text = t]

NextGenerate == GenerateItinerary_extract \/ GenerateItinerary_parse

SpecGenerate == InitGenerate /\ [][NextGenerate]_vars

\* ------------------------------------------------- submit on any body
\* The bodies the submission handler is followed on: dates that parse or not,
\* in either order, counts below, at and above zero, interests given or
\* empty, an email that is no address, and bodies lacking a field
SubmitBodies ==
    LET full == {[GoodBody EXCEPT !.travelDates.startDate = s,
                                  !.travelDates.endDate = e,
                                  !.travelDates.isFlexible = f,
                                  !.group.international.adults = a,
                                  !.group.resident.children = c,
                                  !.interests = t] :
                    s \in DOMAIN date_fromiso \cup {BadDate},
                    e \in DOMAIN date_fromiso,
                    f \in BOOLEAN, a \in {-1, 0, 2}, c \in {-1, 1},
                    t \in {<<>>, <<"wildlife">>}}
    IN  full
        \cup {[GoodBody EXCEPT !.email = MalformedEmail]}
        \cup {Without(GoodBody, f) : f \in DOMAIN GoodBody}
        \cup {[GoodBody EXCEPT !.travelDates = Without(@, f)] : f \in DOMAIN GoodBody.travelDates}
        \cup {[GoodBody EXCEPT !.group = Without(@, f)] : f \in DOMAIN GoodBody.group}
        \cup {[GoodBody EXCEPT !.group.resident = Without(@, f)] :
                 f \in DOMAIN GoodBody.group.resident}

NextSubmit ==
    \/ \E body \in SubmitBodies, i \in RequestIds, ok1, ok2 \in BOOLEAN :
            Submit(body, i, ok1, ok2)
    \/ \E i \in RequestIds : Submit_return(i)

SpecSubmit == Init /\ [][NextSubmit]_vars

\* --------------------------------------------- the pipeline on any event
\* The pipeline function is invoked with an event; its requestData need not
\* be one the submission handler wrote.  The record of the request is as the
\* submission stored it.
DateVariants ==
    LET d == GoodBody.travelDates
    IN  {d, Without(d, "startDate"), Without(d, "endDate"), [d EXCEPT !.startDate = ""]}

GroupVariants ==
    {[international |-> [adults |-> a, children |-> c],
      resident |-> [adults |-> r, children |-> 0]] :
        a \in {0, 2}, c \in {0, 1}, r \in {0, 1}}
    \cup {[international |-> [adults |-> 2], resident |-> [adults |-> 1, children |-> 1]],
          [international |-> [adults |-> 1, children |-> 1]]}

PipelineRequests ==
    {[GoodBody EXCEPT !.travelDates = d, !.group = g] :
        d \in DateVariants, g \in GroupVariants}

\* The events for the record of i: with a request, and without requestId or
\* with an empty one, without requestData, with the empty object or the
\* empty text for it
PipelineEvents(i) ==
    {[requestId |-> i, requestData |-> d] : d \in PipelineRequests}
    \cup {[requestId |-> r, requestData |-> d] : r \in {NoId}, d \in {GoodBody, EmptyText}}
    \cup {[requestData |-> d] : d \in {GoodBody, EmptyText}}
    \cup {[requestId |-> i], [requestId |-> i, requestData |-> <<>>],
          [requestId |-> i, requestData |-> EmptyText]}

InitPipeline ==
    /\ verification = <<>>
    /\ now = 0
    /\ resp = NoResp
    /\ nCalls = 0
    /\ gen = NoGen
    /\ \E i \in RequestIds : \E event \in PipelineEvents(i) :
          /\ store = put_item(<<>>, i,
                              store_request_item(i, SafariRequest(GoodBody).request))
          /\ submitPc = [j \in RequestIds |-> IF j = i THEN "returned" ELSE "none"]
          /\ task = [j \in RequestIds |->
                        IF j = i
                        THEN [NoTask EXCEPT !.pc = "queued", !.spawned = 1,
                                            !.event = event]
                        ELSE NoTask]

NextPipeline ==
    \/ \E i \in RequestIds, ok \in BOOLEAN : ProcessItinerary_begin(i, ok)
    \/ \E i \in RequestIds, c \in Completions, ok1, ok2 \in BOOLEAN :
            ProcessItinerary_run(i, c, ok1, ok2)

SpecPipeline == InitPipeline /\ [][NextPipeline]_vars

\* ------------------------------------------------- search after verification
\* The search handler followed with the handlers that write what it reads:
\* submission and its pipeline, and the request of a verification code for any
\* address
NextSearch ==
    \/ \E body \in TripRequests, i \in RequestIds, ok1, ok2 \in BOOLEAN :
            Submit(body, i, ok1, ok2)
    \/ \E i \in RequestIds : Submit_return(i)
    \/ \E i \in RequestIds, ok \in BOOLEAN : ProcessItinerary_begin(i, ok)
    \/ \E i \in RequestIds, c \in Completions, ok1, ok2 \in BOOLEAN :
            ProcessItinerary_run(i, c, ok1, ok2)
    \/ \E e \in {SubmitEmail} \cup NewEmails \cup {NoEmail}, c \in Codes,
          ok1, ok2 \in BOOLEAN :
            RequestVerification(e, c, ok1, ok2)
    \/ \E e \in {SubmitEmail} \cup NewEmails \cup {NoEmail}, c \in Codes \cup {NoCode},
          ok1, ok2 \in BOOLEAN :
            SearchRequests(e, c, ok1, ok2)
    \/ Tick

SpecSearch == Init /\ [][NextSearch]_vars

\* ------------------------------------------------------------------ claims
Status(i) == IF i \in DOMAIN store THEN store[i].status ELSE ""

\* The run of the pipeline for i returns in this step
RunReturns(i) == task[i].pc # "done" /\ task'[i].pc = "done"

C2_FailedWithErrorMessage ==
    [][\A i \in RequestIds :
          (RunReturns(i) /\ task'[i].began /\ task'[i].raised)
          => /\ i \in DOMAIN store'
             /\ store'[i].status = "failed"
             /\ "errorMessage" \in DOMAIN store'[i]
             /\ store'[i].errorMessage \notin {None, ""}]_vars

\* The submission handler for i returns 202 in this step
SubmitReturns(i) == submitPc[i] = "invoked" /\ submitPc'[i] = "returned"

\* C3 (as stated): when submit returns 202, the record of the returned
\* identifier exists with status exactly 'pending', and the response carries
\* the identifier with status "pending"
C3_PendingAtReturn ==
    [][\A i \in RequestIds :
          SubmitReturns(i)
          => /\ i \in DOMAIN store'
             /\ store'[i].status = "pending"
             /\ resp'.id = i /\ resp'.status = "pending"]_vars

\* C3 (amended): when submit returns 202, the record of the returned identifier
\* exists and the response carries the identifier with status "pending"; the
\* record's status is exactly 'pending' as long as the pipeline task queued
\* for it has not started
C3_PendingAtReturnUnlessStarted ==
    [][\A i \in RequestIds :
          SubmitReturns(i)
          => /\ i \in DOMAIN store'
             /\ resp'.code = 202 /\ resp'.id = i /\ resp'.status = "pending"
             /\ (task'[i].pc = "queued" => store'[i].status = "pending")]_vars

C3_Witness ==
    \E i \in RequestIds :
        /\ submitPc[i] = "returned" /\ resp.code = 202 /\ resp.id = i
        /\ task[i].pc = "queued" /\ Status(i) = "pending"

\* C4: a successful submission has queued exactly one pipeline task for its
\* identifier, no identifier ever has two, and the handler's return waits for
\* nothing the task does
C4_OneTaskPerSubmission ==
    \A i \in RequestIds :
        /\ task[i].spawned <= 1
        /\ (submitPc[i] \in {"invoked", "returned"} <=> task[i].spawned = 1)
        /\ (submitPc[i] = "invoked" => ENABLED Submit_return(i))

C4_Witness ==
    \E i \in RequestIds :
        submitPc[i] = "returned" /\ task[i].spawned = 1 /\ task[i].pc = "queued"

\* C5: the model is invoked only by a run whose write of 'processing' succeeded
C5_ProcessingBeforeModel ==
    \A i \in RequestIds : task[i].modelCalls > 0 => task[i].began

C5_Witness ==
    \E i \in RequestIds : task[i].modelCalls = 1 /\ task[i].began

\* C6: a record with status PENDING_ACCEPTANCE holds an itinerary payload and
\* the totalCost and costPerPerson of that payload; a run whose write of the
\* itinerary raised went on to the write of 'failed'
C6_CompleteIsAtomic ==
    \A i \in RequestIds :
        /\ Status(i) = "PENDING_ACCEPTANCE"
           => /\ "output" \in DOMAIN store[i]
              /\ store[i].output # NoOutput
              /\ store[i].totalCost = store[i].output[1].totalCost
              /\ store[i].costPerPerson = store[i].output[1].costPerPerson
        /\ task[i].storeFailed => task[i].failAttempted

C6_Witness ==
    \E i \in RequestIds :
        /\ Status(i) = "PENDING_ACCEPTANCE"
        /\ store[i].totalCost = 100 /\ store[i].costPerPerson = 50

\* C7: the pipeline writes 'processing' only over 'pending' and its result
\* only over 'processing', in every interleaving with status-advance calls
C7_SequentialStatus ==
    [][\A i \in RequestIds :
          /\ (task[i].pc = "queued" /\ task'[i].pc = "began")
             => Status(i) = "pending"
          /\ (task[i].pc = "began" /\ task'[i].pc = "done" /\ store' # store)
             => Status(i) = "processing"]_vars

Unknown(s) == s # "" /\ s \notin VALID_STATUSES

EmailOf(table, i) ==
    IF i \in DOMAIN table /\ "email" \in DOMAIN table[i] THEN table[i].email ELSE NoEmail

\* The verification table holds code c for email e, and it has not expired
CodeCurrent(e, c) ==
    /\ e \in DOMAIN verification
    /\ verification[e].code = c
    /\ verification[e].expiresAt > now

\* C8 (as stated): a status-advance request with an unknown status is answered
\* InvalidStatus and leaves the store unchanged
C8_InvalidStatus ==
    [][\A i \in RequestIds, s \in StatusInputs, e \in NewEmails \cup {NoEmail},
          c \in Codes \cup {NoCode}, up, ok \in BOOLEAN :
          (UpdateStatus(i, s, e, c, up, ok) /\ Unknown(s))
          => resp'.kind = "InvalidStatus" /\ store' = store]_vars

\* C8 (amended): a status-advance request with an unknown status is answered
\* with a 400 error and leaves the store unchanged; the error is InvalidStatus
\* when the request names no new email or names one with a valid code, and
\* the verification error when its code is missing, wrong or expired (or the
\* verification table cannot be read)
C8_InvalidStatusAfterEmailCheck ==
    [][\A i \in RequestIds, s \in StatusInputs, e \in NewEmails \cup {NoEmail},
          c \in Codes \cup {NoCode}, up, ok \in BOOLEAN :
          (UpdateStatus(i, s, e, c, up, ok) /\ Unknown(s))
          => /\ store' = store
             /\ resp'.code = 400
             /\ resp'.kind =
                  IF e = NoEmail THEN "InvalidStatus"
                  ELSE IF c = NoCode THEN "VerificationCodeRequired"
                  ELSE IF up /\ CodeCurrent(e, c) THEN "InvalidStatus"
                  ELSE "InvalidOrExpiredCode"]_vars

C8_Witness ==
    /\ resp.op = "advance" /\ resp.kind = "InvalidStatus"
    /\ resp.id \in DOMAIN store
    /\ Status(resp.id) = "PENDING_ACCEPTANCE"

\* C9: a status-advance request (valid status, store available) for an
\* identifier with no record is answered NotFound and creates no record
C9_NotFound ==
    [][\A i \in RequestIds, s \in StatusInputs, c \in Codes \cup {NoCode},
          up \in BOOLEAN :
          (UpdateStatus(i, s, NoEmail, c, up, TRUE) /\ s \in VALID_STATUSES
           /\ i \notin DOMAIN store)
          => resp'.kind = "NotFound" /\ i \notin DOMAIN store']_vars

\* C10: a status-advance call changes a record's email only when it carries the
\* code stored for the new email, unexpired; with a new email and a missing,
\* wrong or expired code it changes neither email nor status (nor anything)
C10_EmailNeedsCurrentCode ==
    [][\A i \in RequestIds, s \in StatusInputs, e \in NewEmails \cup {NoEmail},
          c \in Codes \cup {NoCode}, up, ok \in BOOLEAN :
          UpdateStatus(i, s, e, c, up, ok)
          => /\ EmailOf(store', i) # EmailOf(store, i)
                => e # NoEmail /\ c # NoCode /\ CodeCurrent(e, c)
                   /\ EmailOf(store', i) = e
             /\ (e # NoEmail /\ (c = NoCode \/ ~CodeCurrent(e, c)))
                => store' = store]_vars

C10_Witness ==
    \E i \in RequestIds :
        /\ submitPc[i] = "returned"
        /\ resp.op = "advance" /\ resp.kind = "OK"
        /\ EmailOf(store, i) \in NewEmails
        /\ now > 0
\* C11: a poll answer carries an itinerary only for a record whose status is
\* PENDING_ACCEPTANCE, PENDING_BOOKING or COMPLETE, never for one that is
\* pending, processing or failed; and a poll leaves the store unchanged
C11_PollItineraryOnlyWhenReady ==
    [][\A i \in RequestIds \cup {NoId}, up \in BOOLEAN :
          CheckStatus(i, up)
          => /\ store' = store
             /\ ("body" \in DOMAIN resp' /\ "itinerary" \in DOMAIN resp'.body)
                => Status(i) \in {"PENDING_ACCEPTANCE", "PENDING_BOOKING", "COMPLETE"}]_vars

C11_Witness ==
    /\ resp.op = "poll" /\ resp.code = 200
    /\ resp.status = "failed" /\ Status(resp.id) = "failed"
    /\ "itinerary" \notin DOMAIN resp.body
\* Positions of a text holding one of the tokens, and the least and greatest
\* member of a set of positions
Positions(text, toks) == {k \in 1 .. Len(text) : text[k] \in toks}
Least(S) == CHOOSE k \in S : \A j \in S : k <= j
Greatest(S) == CHOOSE k \in S : \A j \in S : k >= j

\* The text has a fenced json block: a json marker and a fence after it
Fenced(text) ==
    /\ Positions(text, {FenceJson}) # {}
    /\ \E j \in Positions(text, {Fence, FenceJson}) :
          j > Least(Positions(text, {FenceJson}))

\* What stands between the first json marker and the next fence
FencedContent(text) ==
    LET k == Least(Positions(text, {FenceJson}))
        j == Least({p \in Positions(text, {Fence, FenceJson}) : p > k})
    IN  SubSeq(text, k + 1, j - 1)

\* The text has no json marker, and a { with a } after it
Braced(text) ==
    /\ Positions(text, {FenceJson}) = {}
    /\ Positions(text, {LBrace}) # {}
    /\ \E b \in Positions(text, {RBrace}) : b > Least(Positions(text, {LBrace}))

BraceSpan(text) ==
    SubSeq(text, Least(Positions(text, {LBrace})), Greatest(Positions(text, {RBrace})))

\* A text without its leading and trailing white space
Trimmed(text) ==
    LET solid == {k \in 1 .. Len(text) : text[k] # Space}
    IN  IF solid = {} THEN <<>> ELSE SubSeq(text, Least(solid), Greatest(solid))

\* C12 (as stated): the JSON text extracted from a text with a fenced json
\* block is exactly what stands between the marker and the closing fence; from
\* a text with no fence it is the span from the first { to the last }
C12_ExtractExact ==
    gen.pc \in {"extracted", "parsed"}
    => /\ Fenced(gen.text) => gen.json_str = FencedContent(gen.text)
       /\ Braced(gen.text) => gen.json_str = BraceSpan(gen.text)

\* C12 (amended): the JSON text extracted from a text with a fenced json block
\* is what stands between the marker and the closing fence without its leading
\* and trailing white space; from a text with no json marker, a { and a }
\* after it, it is the span from the first { to the last }
C12_ExtractTrimmed ==
    gen.pc \in {"extracted", "parsed"}
    => /\ Fenced(gen.text) => gen.json_str = Trimmed(FencedContent(gen.text))
       /\ Braced(gen.text) => gen.json_str = BraceSpan(gen.text)

C12_Witness ==
    /\ gen.pc = "extracted"
    /\ Fenced(gen.text)
    /\ gen.json_str # <<>>
    /\ gen.json_str # FencedContent(gen.text)
\* C13: a text with no { at all fails, and with a failure other than the one
\* that reports JSON text that was found and could not be parsed
C13_NoJsonIsNotInvalidJson ==
    (gen.pc = "parsed" /\ Positions(gen.text, {LBrace}) = {})
    => ~gen.result.ok /\ gen.result.error # InvalidJSON
\* The completion is a text whose JSON parses to an object without the key
LacksKey(c, key) ==
    /\ c.kind = "text"
    /\ json_loads(extract_json_str(c.text)).ok
    /\ json_loads(extract_json_str(c.text)).isdict
    /\ key \notin DOMAIN json_loads(extract_json_str(c.text)).value

\* C14: a run whose completion parses to an object without the itinerary key
\* writes no payload, totalCost or costPerPerson to the record, and leaves the
\* record failed when the store takes the write of the failure
C14_MissingItineraryFails ==
    [][\A i \in RequestIds, c \in Completions, ok1, ok2 \in BOOLEAN :
          (ProcessItinerary_run(i, c, ok1, ok2) /\ LacksKey(c, "itinerary"))
          => /\ task'[i].raised
             /\ ok2 => store'[i].status = "failed"
             /\ store'[i].output = store[i].output
             /\ store'[i].totalCost = store[i].totalCost
             /\ store'[i].costPerPerson = store[i].costPerPerson]_vars

C14_Witness ==
    \E i \in RequestIds :
        /\ task[i].pc = "done" /\ task[i].raised
        /\ Status(i) = "failed"
        /\ store[i].error = "Generated itinerary missing 'itinerary' array"
        /\ store[i].output = NoOutput
\* The object the extracted JSON text of the call parses to, when it is one
\* with the itinerary key
ParsedObject == json_loads(gen.json_str).value
HasItinerary ==
    /\ gen.pc = "parsed"
    /\ json_loads(gen.json_str).ok
    /\ json_loads(gen.json_str).isdict
    /\ "itinerary" \in DOMAIN ParsedObject

\* The sum of the totalCost of the first n days, 0 for a day without one
RECURSIVE DayCosts(_, _)
DayCosts(days, n) ==
    IF n = 0 THEN 0
    ELSE DayCosts(days, n - 1)
         + (IF "totalCost" \in DOMAIN days[n] THEN days[n].totalCost ELSE 0)

\* C15: the back-fill sets an absent totalCost to the sum of the days' own
\* totalCost (0 for a day without one, 0 for no days); the itinerary returned
\* keeps a totalCost and a costPerPerson the model gave
C15_TotalCostBackfill ==
    HasItinerary
    => LET expected ==
               IF "totalCost" \in DOMAIN ParsedObject THEN ParsedObject.totalCost
               ELSE DayCosts(ParsedObject.itinerary, Len(ParsedObject.itinerary))
       IN  /\ with_total_cost(ParsedObject).totalCost = expected
           /\ gen.result.ok
              => /\ gen.result.itinerary.totalCost = expected
                 /\ "costPerPerson" \in DOMAIN ParsedObject
                 /\ gen.result.itinerary.costPerPerson = ParsedObject.costPerPerson

C15_Witness ==
    /\ HasItinerary /\ gen.result.ok
    /\ "totalCost" \notin DOMAIN ParsedObject
    /\ Len(ParsedObject.itinerary) = 2
    /\ gen.result.itinerary.totalCost = 100
\* The travelers an event's request names: the four counts, 0 for one not given
Count(request_data, category, age) ==
    IF /\ "group" \in DOMAIN request_data
       /\ category \in DOMAIN request_data.group
       /\ age \in DOMAIN request_data.group[category]
    THEN request_data.group[category][age] ELSE 0

Travelers(request_data) ==
    Count(request_data, "international", "adults")
    + Count(request_data, "international", "children")
    + Count(request_data, "resident", "adults")
    + Count(request_data, "resident", "children")

\* The event's request names both dates
HasDates(request_data) ==
    /\ "travelDates" \in DOMAIN request_data
    /\ {"startDate", "endDate"} \subseteq DOMAIN request_data.travelDates
    /\ request_data.travelDates.startDate # ""
    /\ request_data.travelDates.endDate # ""

\* C16: a run whose completion has the itinerary and no costPerPerson succeeds
\* (the store taking its write), and the costPerPerson it stores is the
\* totalCost over the traveler count (1 for a count of 0), to two decimals
C16_CostPerPersonBackfill ==
    [][\A i \in RequestIds, c \in Completions :
          (/\ ProcessItinerary_run(i, c, TRUE, TRUE)
           /\ HasDates(task[i].event.requestData)
           /\ LacksKey(c, "costPerPerson")
           /\ ~LacksKey(c, "itinerary"))
          => LET n == Travelers(task[i].event.requestData)
                 divisor == IF n = 0 THEN 1 ELSE n
                 diff == store'[i].costPerPerson * divisor - store'[i].totalCost
             IN  /\ ~task'[i].raised
                 /\ store'[i].status = "PENDING_ACCEPTANCE"
                 /\ 200 * diff <= divisor
                 /\ -200 * diff <= divisor]_vars

\* C18: a run compiles its prompt from the event's request: with both dates the
\* prompt names the sum of the four counts and the two dates and the model is
\* invoked; with a date absent (or empty) the model is not invoked, the run
\* raises, and the record is failed when the store takes that write
C18_PromptCompilation ==
    [][\A i \in RequestIds, c \in Completions, ok1, ok2 \in BOOLEAN :
          ProcessItinerary_run(i, c, ok1, ok2)
          => LET request_data == task[i].event.requestData
                 compiled == generate_prompt(request_data)
             IN  IF HasDates(request_data)
                 THEN /\ compiled.ok
                      /\ compiled.prompt.total_travelers = Travelers(request_data)
                      /\ compiled.prompt.start_date = request_data.travelDates.startDate
                      /\ compiled.prompt.end_date = request_data.travelDates.endDate
                      /\ task'[i].modelCalls = task[i].modelCalls + 1
                 ELSE /\ ~compiled.ok
                      /\ task'[i].modelCalls = task[i].modelCalls
                      /\ task'[i].raised
                      /\ ok2 => store'[i].status = "failed"]_vars

C18_Witness ==
    \E i \in RequestIds :
        /\ task[i].pc = "done" /\ task[i].began
        /\ "startDate" \notin DOMAIN task[i].event.requestData.travelDates
        /\ task[i].modelCalls = 0
        /\ Status(i) = "failed"
        /\ store[i].error = "Missing start date or end date"
\* C17: the itinerary a run stored on the record has only the allow-listed
\* keys, at the top and in every day
C17_StoredItineraryAllowListed ==
    \A i \in DOMAIN store :
        ("output" \in DOMAIN store[i] /\ store[i].output # NoOutput)
        => /\ DOMAIN store[i].output[1] \subseteq
                {"summary", "itinerary", "totalCost", "costPerPerson",
                 "inclusions", "exclusions", "notes"}
           /\ \A d \in 1 .. Len(store[i].output[1].itinerary) :
                 DOMAIN store[i].output[1].itinerary[d] \subseteq
                     {"day", "date", "activities", "accommodation", "meals"}
\* The body lacks a required field, carries a text that is not a date, or a
\* negative count
Lacks(r, fields) == \E f \in fields : f \notin DOMAIN r

FailsValidation(body) ==
    \/ Lacks(body, {"travelDates", "group", "accommodation", "interests",
                    "travelStyle", "email", "specialRequests"})
    \/ Lacks(body.travelDates, {"startDate", "endDate", "isFlexible"})
    \/ Lacks(body.group, {"international", "resident"})
    \/ \E c \in {"international", "resident"} : Lacks(body.group[c], {"adults", "children"})
    \/ \E d \in {"startDate", "endDate"} : body.travelDates[d] = BadDate
    \/ \E c \in {"international", "resident"}, g \in {"adults", "children"} :
          body.group[c][g] < 0

\* C19: a submission that fails validation is answered 400 with an error,
\* stores no record and queues no pipeline task
C19_InvalidSubmissionRejected ==
    [][\A body \in SubmitBodies, i \in RequestIds, ok1, ok2 \in BOOLEAN :
          (Submit(body, i, ok1, ok2) /\ FailsValidation(body))
          => /\ resp'.code = 400 /\ resp'.kind = "InvalidRequest"
             /\ store' = store
             /\ task' = task]_vars

C19_Witness ==
    /\ resp.op = "submit" /\ resp.code = 400
    /\ store = <<>>
    /\ \A i \in RequestIds : task[i].spawned = 0

\* C20: a submission with an empty interests list is answered 400 with an error
\* and stores no record
C20_EmptyInterestsRejected ==
    [][\A body \in SubmitBodies, i \in RequestIds :
          (Submit(body, i, TRUE, TRUE) /\ ~FailsValidation(body)
           /\ body.interests = <<>>)
          => /\ resp'.code = 400
             /\ store' = store]_vars

\* C21: a submission whose email is not a well-formed address is answered 400
\* with an error and stores no record
C21_MalformedEmailRejected ==
    [][\A body \in SubmitBodies, i \in RequestIds :
          (Submit(body, i, TRUE, TRUE) /\ ~FailsValidation(body)
           /\ body.email = MalformedEmail)
          => /\ resp'.code = 400
             /\ store' = store]_vars

\* No record of the store has the email
NoRecordOf(email) == \A i \in DOMAIN store : EmailOf(store, i) # email

\* C22: a search with the current code of an email no record has is answered
\* with success and an empty list (both tables available)
C22_SearchNoMatchIsEmptySuccess ==
    [][\A e \in {SubmitEmail} \cup NewEmails, c \in Codes :
          (SearchRequests(e, c, TRUE, TRUE) /\ CodeCurrent(e, c) /\ NoRecordOf(e))
          => /\ resp'.code = 200
             /\ "requests" \in DOMAIN resp'
             /\ resp'.requests = <<>>]_vars

\* C23: a search with the current code of an email is answered with every
\* record of that email, each once, a later created one before an earlier one
C23_SearchReturnsAllNewestFirst ==
    [][\A e \in {SubmitEmail} \cup NewEmails, c \in Codes :
          (SearchRequests(e, c, TRUE, TRUE) /\ CodeCurrent(e, c))
          => /\ resp'.code = 200
             /\ "requests" \in DOMAIN resp'
             /\ {r.requestId : r \in {resp'.requests[k] : k \in DOMAIN resp'.requests}}
                  = {i \in DOMAIN store : EmailOf(store, i) = e}
             /\ Len(resp'.requests)
                  = Cardinality({i \in DOMAIN store : EmailOf(store, i) = e})
             /\ \A a, b \in DOMAIN resp'.requests :
                   a < b => resp'.requests[a].createdAt >= resp'.requests[b].createdAt]_vars

\* The step is a call of the verification-request handler, of the
\* status-advance handler
VerificationCall == nCalls' # nCalls /\ resp'.op = "verification"
AdvanceCall == nCalls' # nCalls /\ resp'.op = "advance"

\* C24: a verification request that stores leaves one record for its email,
\* holding the new code and no earlier one, and the records of other emails as
\* they were; no other step changes the verification table, and a code that is
\* current before a status-advance call that passed its check is current after
C24_VerificationLifecycle ==
    [][/\ \A e \in NewEmails, c \in Codes, mailOk \in BOOLEAN :
             RequestVerification(e, c, TRUE, mailOk)
             => /\ e \in DOMAIN verification'
                /\ verification'[e].code = c
                /\ CodeCurrent(e, c)'
                /\ \A c0 \in Codes \ {c} : ~CodeCurrent(e, c0)'
                /\ \A k \in DOMAIN verification' \ {e} :
                      k \in DOMAIN verification /\ verification'[k] = verification[k]
       /\ ~VerificationCall => verification' = verification
       /\ (AdvanceCall /\ resp'.kind = "OK")
             => \A e \in NewEmails, c \in Codes : CodeCurrent(e, c) => CodeCurrent(e, c)']_vars

\* A status-advance call changed the email with a code that is still current
C24_Witness ==
    \E i \in RequestIds, c \in Codes :
        /\ resp.op = "advance" /\ resp.kind = "OK"
        /\ EmailOf(store, i) \in NewEmails
        /\ CodeCurrent(EmailOf(store, i), c)

\* C25: a step that gives a record its status stamps the record in the same
\* write: the submission that creates it sets createdAt, every later change of
\* status sets updatedAt, to the time of the step
C25_TransitionsStamped ==
    [][\A i \in RequestIds :
          (/\ i \in DOMAIN store'
           /\ i \notin DOMAIN store \/ store'[i].status # store[i].status)
          => IF submitPc'[i] # submitPc[i]
             THEN "createdAt" \in DOMAIN store'[i] /\ store'[i].createdAt = now
             ELSE "updatedAt" \in DOMAIN store'[i] /\ store'[i].updatedAt = now]_vars

\* The attribute of a record: <<value>>, or <<>> when the record lacks it
Attr(table, i, f) ==
    IF i \in DOMAIN table /\ f \in DOMAIN table[i] THEN <<table[i][f]>> ELSE <<>>

\* The step is a write step of the pipeline task of i
PipelineStep(i) == task[i].pc \in {"queued", "began"} /\ task'[i].pc # task[i].pc

\* C26: a step of the pipeline leaves email, input, createdAt and paymentStatus
\* of its record as they were, a status-advance call leaves output, totalCost,
\* costPerPerson and error as they were, and each of them that writes leaves
\* the status it wrote
C26_FieldUpdatesDoNotClobber ==
    [][\A i \in RequestIds :
          /\ PipelineStep(i)
             => /\ \A f \in {"email", "input", "createdAt", "paymentStatus", "updatedAt"} :
                      Attr(store', i, f) = Attr(store, i, f)
                /\ store' # store => store'[i].status \in {"processing", "PENDING_ACCEPTANCE", "failed"}
                /\ task'[i].outcome = "200 PENDING_ACCEPTANCE"
                   => /\ store'[i].status = "PENDING_ACCEPTANCE"
                      /\ store'[i].output # NoOutput
          /\ (AdvanceCall /\ resp'.id = i)
             => /\ \A f \in {"output", "totalCost", "costPerPerson", "error", "input",
                               "createdAt", "paymentStatus"} :
                      Attr(store', i, f) = Attr(store, i, f)
                /\ resp'.kind = "OK"
                   => /\ store'[i].status = resp'.status
                      /\ store'[i].updatedAt = now]_vars

\* Both writers have written the record: the status-advance call its email and
\* updatedAt, and after it the pipeline its status, payload and costs
C26_Witness ==
    \E i \in RequestIds :
        /\ task[i].pc = "done" /\ task[i].outcome = "200 PENDING_ACCEPTANCE"
        /\ Status(i) = "PENDING_ACCEPTANCE"
        /\ EmailOf(store, i) \in NewEmails
        /\ "updatedAt" \in DOMAIN store[i]
        /\ store[i].output # NoOutput
        /\ store[i].createdAt = 0

\* C27: no answer of a handler carries the text of an exception it caught
C27_NoExceptionTextInResponse ==
    /\ "details" \notin DOMAIN resp
    /\ \A i \in RequestIds : task[i].details = ""

\* The arrows of the booking part of the state machine
Arrows ==
    {<<"PENDING_ACCEPTANCE", "PENDING_BOOKING">>,
     <<"PENDING_BOOKING", "BOOKING_IN_PROGRESS">>,
     <<"BOOKING_IN_PROGRESS", "PENDING_PAYMENT">>,
     <<"PENDING_PAYMENT", "COMPLETE">>}

\* C28: a status-advance call that changes the status of the record of a
\* submitted request moves it along an arrow of the state machine
C28_AdvanceFollowsArrows ==
    [][\A i \in RequestIds :
          (/\ AdvanceCall /\ resp'.id = i
           /\ i \in DOMAIN store /\ submitPc[i] = "returned"
           /\ store'[i].status # store[i].status)
          => <<store[i].status, store'[i].status>> \in Arrows]_vars

CanonicalStatuses ==
    {"pending", "processing", "PENDING_ACCEPTANCE", "failed", "PENDING_BOOKING",
     "BOOKING_IN_PROGRESS", "PENDING_PAYMENT", "COMPLETE"}

\* C29: the status of every record is of the canonical vocabulary, and the
\* status a pipeline run writes on success is one a status-advance call accepts
C29_OneVocabulary ==
    [][/\ \A i \in DOMAIN store' : store'[i].status \in CanonicalStatuses
       /\ \A i \in RequestIds :
             (PipelineStep(i) /\ ~task'[i].raised /\ task'[i].pc = "done"
              /\ store' # store)
             => advance_outcome(store'[i].status, NoEmail, NoCode, TRUE, TRUE) = "OK"]_vars

\* C30: a run invokes the model at most once; when the invocation raises, the
\* run has invoked it once, raises, and goes to the write of 'failed' with
\* the text of the exception
C30_ModelInvokedAtMostOnce ==
    [][\A i \in RequestIds, c \in Completions, ok1, ok2 \in BOOLEAN :
          ProcessItinerary_run(i, c, ok1, ok2)
          => /\ task'[i].modelCalls <= 1
             /\ (c.kind = "invoke_raises" /\ HasDates(task[i].event.requestData))
                => /\ task'[i].modelCalls = 1
                   /\ task'[i].raised
                   /\ task'[i].failAttempted
                   /\ ok2 => /\ store'[i].status = "failed"
                             /\ c.msg # "" => store'[i].error = c.msg
                             /\ store'[i].output = store[i].output]_vars

C30_Witness ==
    \E i \in RequestIds :
        /\ task[i].pc = "done" /\ task[i].raised
        /\ task[i].modelCalls = 1
        /\ Status(i) = "failed"
        /\ Attr(store, i, "error") = <<"ThrottlingException">>

\* C31: every record of the store has a start date that is not after its end
\* date
C31_StartNotAfterEnd ==
    \A i \in DOMAIN store :
        date_fromiso[store[i].startDate] <= date_fromiso[store[i].endDate]

\* C32: a status-advance call that changes the email while the verification
\* table cannot be read is answered with an internal failure, not with the
\* rejection of its code; and a run whose write of 'processing' raises answers
\* an error and does not invoke the model
C32_StoreFailureSurfaced ==
    [][/\ \A i \in RequestIds, s \in StatusInputs \ {""}, e \in NewEmails,
             c \in Codes, ok \in BOOLEAN :
             UpdateStatus(i, s, e, c, FALSE, ok)
             => resp'.kind # "InvalidOrExpiredCode" /\ resp'.code = 500
       /\ \A i \in RequestIds :
             ProcessItinerary_begin(i, FALSE)
             => /\ task'[i].pc = "done"
                /\ task'[i].outcome = "500 Internal server error"
                /\ task'[i].modelCalls = 0
                /\ store' = store]_vars

\* C33: a record a submission stored, while it is pending, has a pipeline task
\* handed off for it; a submission that failed left no pending record
C33_NoStrandedPending ==
    \A i \in RequestIds :
        (i \in DOMAIN store /\ submitPc[i] # "none" /\ Status(i) = "pending")
        => task[i].spawned >= 1 /\ submitPc[i] # "failed"

\* C34: the answer to a poll of a record whose run succeeded and whose status
\* was advanced to PENDING_BOOKING or COMPLETE carries the itinerary the run
\* stored
C34_PollShowsStoredItinerary ==
    [][\A i \in RequestIds :
          (/\ CheckStatus(i, TRUE)
           /\ i \in DOMAIN store
           /\ task[i].outcome = "200 PENDING_ACCEPTANCE"
           /\ Status(i) \in {"PENDING_BOOKING", "COMPLETE"})
          => /\ resp'.code = 200
             /\ "itinerary" \in DOMAIN resp'.body
             /\ <<resp'.body.itinerary>> = store[i].output]_vars

\* C35: the answer to a poll of a record a run moved to 'failed' carries the
\* error text the run stored
C35_PollShowsStoredError ==
    [][\A i \in RequestIds :
          (/\ CheckStatus(i, TRUE)
           /\ i \in DOMAIN store
           /\ task[i].failStored
           /\ Status(i) = "failed"
           /\ "error" \in DOMAIN store[i])
          => /\ resp'.code = 200
             /\ \E f \in DOMAIN resp'.body \cap {"error", "errorMessage"} :
                   resp'.body[f] = store[i].error]_vars

\* C36: the search handler accepts a code for an email (and answers with the
\* list of requests) exactly when the email check of status advance accepts it
C36_SearchAcceptsWhatAdvanceAccepts ==
    [][\A e \in {SubmitEmail} \cup NewEmails, c \in Codes :
          SearchRequests(e, c, TRUE, TRUE)
          => (resp'.code = 200 /\ "requests" \in DOMAIN resp')
             <=> verify_code(e, c, TRUE)]_vars

\* The event names no request, or carries no request data
Malformed(event) ==
    \/ "requestId" \notin DOMAIN event
    \/ event.requestId = NoId
    \/ "requestData" \notin DOMAIN event
    \/ event.requestData \in {<<>>, EmptyText}

\* C38: a run on an event without requestId, or without requestData or with
\* empty requestData, answers 400, writes nothing to the store and does not
\* invoke the model
C38_MalformedEventRejected ==
    [][\A i \in RequestIds, ok \in BOOLEAN :
          (ProcessItinerary_begin(i, ok) /\ Malformed(task[i].event))
          => /\ task'[i].pc = "done"
             /\ task'[i].outcome = "400 Missing requestId or requestData"
             /\ task'[i].modelCalls = 0
             /\ store' = store]_vars

\* C37: a record a submission stored whose status is PENDING_BOOKING,
\* BOOKING_IN_PROGRESS, PENDING_PAYMENT or COMPLETE has an itinerary stored
C37_BookingStatusHasItinerary ==
    \A i \in DOMAIN store :
        (/\ submitPc[i] # "none"
         /\ store[i].status \in {"PENDING_BOOKING", "BOOKING_IN_PROGRESS",
                                 "PENDING_PAYMENT", "COMPLETE"})
        => Attr(store, i, "output") \notin {<<>>, <<NoOutput>>}
====
